---- MODULE Spec2Model ----
(***************************************************************************)
(* A model of the keyval-db server: the dataset store (database.py), the   *)
(* sorted set (datastructures.py), the command parsers (utils.py), the     *)
(* session with its snapshot routine and recovery (engine.py) and the      *)
(* request/reply loop (server.py).                                         *)
(*                                                                         *)
(* A command line is a sequence of tokens (what shlex.split returns); a    *)
(* token is a string.  Numbers are written and read back as Python does    *)
(* it: str(int) is the decimal numeral, str(float) of a whole float ends   *)
(* in ".0", int() accepts only the former, float() accepts both.           *)
(* Time is a whole number of seconds; the files of the one dataset the     *)
(* model follows are variables.                                            *)
(***************************************************************************)
EXTENDS Integers, Sequences, FiniteSets, TLC

\* ------------------------------------------------------------------ bounds
MaxTime == 2        \* the clock runs from 1 to MaxTime
MaxLog == 2         \* a command runs only if it leaves the active log MaxLog lines at most
MaxWorkers == 1     \* snapshot workers alive at once
MaxCrashes == 1     \* process kills in one behaviour
MaxReq == 4         \* requests the server loop receives in one behaviour
MaxOverlap == 2     \* snapshot workers alive at once where two snapshots overlap

\* ------------------------------------------------------------- input sets
Names == {"a"}
Keys == {"x", "y"}
Members == {"a", "b", "c", "d", "e"}
\* the whole numbers a token may stand for
NumRange == 0..(MaxTime + 2)

None == -1          \* Python's None where the code holds a number or None
NoDb == "<none>"    \* Session.__cur_database is None

\* ----------------------------------------------------- numbers as strings
IntStr(n) == ToString(n)
FloatStr(n) == ToString(n) \o ".0"
\* f'{timeout}' of database.py: None, or the float time.time() + age
TimeoutStr(t) == IF t = None THEN "None" ELSE FloatStr(t)
IsIntStr(s) == \E n \in NumRange : s = IntStr(n)
IsFloatStr(s) == IsIntStr(s) \/ \E n \in NumRange : s = FloatStr(n)
IntOf(s) == CHOOSE n \in NumRange : s = IntStr(n)
FloatOf(s) == CHOOSE n \in NumRange : s = IntStr(n) \/ s = FloatStr(n)

\* Python truthiness of a number-or-None: None and 0 are false
Truthy(n) == n # None /\ n # 0

\* ------------------------------------------------------------ utils.py
KnownCommands ==
    {"SELECT", "DESELECT", "GET", "SET", "EXPIRE", "TTL", "DEL", "ZADD",
     "ZRANK", "ZRANGE", "EXIT"}

\* the optional arguments CommandParser.__init__ adds for a command
IntOptions(cmd) == IF cmd = "SET" THEN {"-EX", "-PX"} ELSE {}
FlagOptions(cmd) ==
    CASE cmd = "SET" -> {"-NX", "-XX", "-KEEPTTL"}
      [] cmd = "ZADD" -> {"-NX", "-XX", "-CH", "-INCR"}
      [] cmd = "ZRANGE" -> {"-WITHSCORES"}
      [] OTHER -> {}
OptionLike ==
    {"-EX", "-PX", "-NX", "-XX", "-KEEPTTL", "-CH", "-INCR", "-WITHSCORES", "-h"}

\* the Namespace argparse fills, with the positionals still as tokens
NoArgs ==
    [ok |-> TRUE, err |-> "", pos |-> <<>>, EX |-> None, PX |-> None,
     NX |-> FALSE, XX |-> FALSE, KEEPTTL |-> FALSE, CH |-> FALSE,
     INCR |-> FALSE, WITHSCORES |-> FALSE, score_member |-> <<>>]
ParseError(msg) == [NoArgs EXCEPT !.ok = FALSE, !.err = msg]

SetFlag(a, t) ==
    CASE t = "-NX" -> IF a.XX THEN ParseError("not allowed with argument")
                      ELSE [a EXCEPT !.NX = TRUE]
      [] t = "-XX" -> IF a.NX THEN ParseError("not allowed with argument")
                      ELSE [a EXCEPT !.XX = TRUE]
      [] t = "-KEEPTTL" -> [a EXCEPT !.KEEPTTL = TRUE]
      [] t = "-CH" -> [a EXCEPT !.CH = TRUE]
      [] t = "-INCR" -> [a EXCEPT !.INCR = TRUE]
      [] t = "-WITHSCORES" -> [a EXCEPT !.WITHSCORES = TRUE]
      [] OTHER -> a
SetIntOption(a, t, n) ==
    CASE t = "-EX" -> IF a.PX # None THEN ParseError("not allowed with argument")
                      ELSE [a EXCEPT !.EX = n]
      [] t = "-PX" -> IF a.EX # None THEN ParseError("not allowed with argument")
                      ELSE [a EXCEPT !.PX = n]
      [] OTHER -> a

\* argparse's scan of the tokens: options are taken where they stand, with
\* the checks of the mutually exclusive groups and of type=int; the other
\* tokens are the positionals, in order.  (The inputs of the model keep the
\* positionals together, so argparse's chunking of them does not show.)
RECURSIVE ScanArgs(_, _, _)
ScanArgs(cmd, toks, a) ==
    IF toks = <<>> \/ ~a.ok THEN a
    ELSE LET t == Head(toks) IN
      IF t \in IntOptions(cmd) THEN
          IF Len(toks) < 2 \/ toks[2] \in OptionLike
          THEN ParseError("expected one argument")
          ELSE IF ~IsIntStr(toks[2]) THEN ParseError("invalid int value")
          ELSE ScanArgs(cmd, SubSeq(toks, 3, Len(toks)),
                        SetIntOption(a, t, IntOf(toks[2])))
      ELSE IF t \in FlagOptions(cmd) THEN ScanArgs(cmd, Tail(toks), SetFlag(a, t))
      ELSE IF t = "-h" THEN ParseError("usage")
      ELSE IF t \in OptionLike THEN ParseError("unrecognized arguments")
      ELSE ScanArgs(cmd, Tail(toks), [a EXCEPT !.pos = Append(@, t)])

\* the number of positionals each parser takes: <<least, most>>
Arity(cmd) ==
    CASE cmd \in {"SELECT", "GET", "TTL"} -> <<1, 1>>
      [] cmd \in {"SET", "EXPIRE", "ZRANK"} -> <<2, 2>>
      [] cmd = "ZRANGE" -> <<3, 3>>
      [] cmd = "DEL" -> <<1, 1000>>
      [] cmd = "ZADD" -> <<2, 1000>>
      [] OTHER -> <<0, 0>>

\* ArgumentParser.parse_args: the scan, then the required positionals, then
\* the tokens left over, then type=int of ZRANGE's start and stop
ParseArgs(cmd, toks) ==
    LET a == ScanArgs(cmd, toks, NoArgs) IN
    IF ~a.ok THEN a
    ELSE IF Len(a.pos) < Arity(cmd)[1]
         THEN ParseError("the following arguments are required")
    ELSE IF Len(a.pos) > Arity(cmd)[2] THEN ParseError("unrecognized arguments")
    ELSE IF cmd = "ZRANGE" /\ ~(IsIntStr(a.pos[2]) /\ IsIntStr(a.pos[3]))
         THEN ParseError("invalid int value")
    ELSE a

\* CommandParser.__fetch_pair_list on score_member_pairs (the positionals
\* after the key)
RECURSIVE PairsOf(_)
PairsOf(arglist) ==
    IF Len(arglist) < 2 THEN <<>>
    ELSE <<<<FloatOf(arglist[1]), arglist[2]>>>> \o PairsOf(SubSeq(arglist, 3, Len(arglist)))
FetchPairList(arglist) ==
    IF Len(arglist) % 2 = 1 THEN ParseError("Score member should be in pairs.")
    ELSE IF \E i \in 1..Len(arglist) : i % 2 = 1 /\ ~IsFloatStr(arglist[i])
         THEN ParseError("Score values should be int or float, not string")
    ELSE [NoArgs EXCEPT !.score_member = PairsOf(arglist)]

\* CommandParser.parse: the Namespace, or None (ok = FALSE) after error()
\* has printed err; the message itself is not returned
Parse(cmd, toks) ==
    LET a == ParseArgs(cmd, toks) IN
    IF ~a.ok \/ cmd # "ZADD" THEN a
    ELSE LET p == FetchPairList(Tail(a.pos)) IN
         IF ~p.ok THEN p ELSE [a EXCEPT !.score_member = p.score_member]

\* ------------------------------------------------------ reply values
\* what a command returns: a string, a number, a list or None
RStr(s) == [kind |-> "str", s |-> s, n |-> 0, l |-> <<>>]
RInt(n) == [kind |-> "int", s |-> "", n |-> n, l |-> <<>>]
RList(l) == [kind |-> "list", s |-> "", n |-> 0, l |-> l]
RNone == [kind |-> "none", s |-> "", n |-> 0, l |-> <<>>]
Nil == RStr("(nil)")
NoReply == [kind |-> "noreply", s |-> "", n |-> 0, l |-> <<>>]

\* ------------------------------------------------- datastructures.py
\* MySortedSet: scoremap is the dict (sm on its key domain dom); members
\* is the SortedSet, made of its set and of its sorted list, whose entries
\* keep the key they were inserted under
ZeroScores == [m \in Members |-> 0]
EmptyZ == [sm |-> ZeroScores, dom |-> {}, set |-> {}, list |-> <<>>]

\* the orders in which Python may iterate over a set of members (the order
\* of the hashes of their names, which changes with the hash seed).  The
\* order only shows between members of equal score, and the command lines
\* give equal scores to a and b alone: the orders taken are the two of a and
\* b, the other members following
Tied == {"a", "b"}
Untied == <<"c", "d", "e">>
TieOrders ==
    {o \o Untied : o \in {t \in [1..Cardinality(Tied) -> Tied] :
                              \A i, j \in DOMAIN t : i # j => t[i] # t[j]}}
Position(o, m) == CHOOSE i \in DOMAIN o : o[i] = m

RemoveAt(l, i) == SubSeq(l, 1, i - 1) \o SubSeq(l, i + 1, Len(l))
InsertAt(l, i, e) == SubSeq(l, 1, i - 1) \o <<e>> \o SubSeq(l, i, Len(l))

\* SortedKeyList.remove(value): looks value up under its present key
ListRemove(z, m) ==
    LET hit == {i \in DOMAIN z.list : z.list[i].k = z.sm[m] /\ z.list[i].m = m} IN
    IF hit = {} THEN z.list
    ELSE RemoveAt(z.list, CHOOSE i \in hit : \A j \in hit : i <= j)

\* SortedSet.remove(value) inside try/except KeyError, ValueError: the set
\* loses the member first, then the list is searched
SortedSetRemove(z, m) ==
    IF m \notin z.set THEN z
    ELSE [z EXCEPT !.set = @ \ {m}, !.list = ListRemove(z, m)]

\* SortedKeyList.add(value): bisect_right on the stored keys
ListAdd(z, m) ==
    LET k == z.sm[m]
        n == Cardinality({i \in DOMAIN z.list : z.list[i].k <= k})
    IN InsertAt(z.list, n + 1, [k |-> k, m |-> m])

\* SortedSet.add(value)
SortedSetAdd(z, m) ==
    IF m \in z.set THEN z
    ELSE [z EXCEPT !.set = @ \cup {m}, !.list = ListAdd(z, m)]

\* sorted(set, key): a stable sort of the set in its iteration order o
RECURSIVE SortedByKey(_, _, _)
SortedByKey(S, sm, o) ==
    IF S = {} THEN <<>>
    ELSE LET m == CHOOSE x \in S :
                    \A y \in S : sm[x] < sm[y]
                                 \/ (sm[x] = sm[y] /\ Position(o, x) <= Position(o, y))
         IN <<[k |-> sm[m], m |-> m]>> \o SortedByKey(S \ {m}, sm, o)

RECURSIVE AddAll(_, _, _)
AddAll(z, vals, o) ==
    IF vals = {} THEN z
    ELSE LET m == CHOOSE x \in vals : \A y \in vals : Position(o, x) <= Position(o, y)
         IN AddAll(SortedSetAdd(z, m), vals \ {m}, o)

\* SortedSet.update(iterable): rebuilds the list when the new values are
\* more than a quarter of the set, adds them one by one otherwise
SortedSetUpdate(z, vals, o) ==
    IF 4 * Cardinality(vals) > Cardinality(z.set)
    THEN [z EXCEPT !.set = @ \cup vals,
                   !.list = SortedByKey(z.set \cup vals, z.sm, o)]
    ELSE AddAll(z, vals, o)

RECURSIVE RemoveEach(_, _)
RemoveEach(z, members) ==
    IF members = <<>> THEN z
    ELSE RemoveEach(SortedSetRemove(z, Head(members)), Tail(members))

MembersOf(pairs) == [i \in DOMAIN pairs |-> pairs[i][2]]
Range(f) == {f[i] : i \in DOMAIN f}

\* the second half of update and of incr_update: remove every member, then
\* members.update(members)
Reinsert(z, pairs, o) ==
    SortedSetUpdate(RemoveEach(z, MembersOf(pairs)), Range(MembersOf(pairs)), o)

\* the first loop of MySortedSet.update: <<scoremap, exist_count>>
RECURSIVE AssignScores(_, _, _, _)
AssignScores(z, pairs, ch_flag, exist_count) ==
    IF pairs = <<>> THEN [z |-> z, exist_count |-> exist_count]
    ELSE LET score == Head(pairs)[1]
             key == Head(pairs)[2]
             counted == key \in z.dom /\ (~ch_flag \/ z.sm[key] = score)
         IN AssignScores([z EXCEPT !.sm[key] = score, !.dom = @ \cup {key}],
                         Tail(pairs), ch_flag,
                         exist_count + (IF counted THEN 1 ELSE 0))

\* an update that counts every member it finds, whatever ch_flag is
ZUpdateCountsNew(z, pairs, ch_flag, o) ==
    LET a == AssignScores(z, pairs, FALSE, 0) IN
    [z |-> Reinsert(a.z, pairs, o), ret |-> Len(pairs) - a.exist_count]
\* MySortedSet.update(iterable, ch_flag): the set and the returned count
ZUpdate(z, pairs, ch_flag, o) ==
    LET a == AssignScores(z, pairs, ch_flag, 0) IN
    [z |-> Reinsert(a.z, pairs, o), ret |-> Len(pairs) - a.exist_count]

\* the first loop of MySortedSet.incr_update
RECURSIVE IncrScores(_, _)
IncrScores(z, pairs) ==
    IF pairs = <<>> THEN z
    ELSE LET score == Head(pairs)[1]
             key == Head(pairs)[2]
         IN IncrScores([z EXCEPT !.sm[key] = IF key \in z.dom THEN @ + score ELSE score,
                                 !.dom = @ \cup {key}],
                       Tail(pairs))

\* an incr_update that gives the score and does not add it
ZIncrUpdateAssigns(z, pairs, o) ==
    [z |-> ZUpdate(z, pairs, FALSE, o).z, ret |-> pairs[Len(pairs)][1]]
\* MySortedSet.incr_update(iterable): the set and the last member's score
ZIncrUpdate(z, pairs, o) ==
    LET z1 == IncrScores(z, pairs) IN
    [z |-> Reinsert(z1, pairs, o), ret |-> z1.sm[pairs[Len(pairs)][2]]]

\* -------------------------------------------------------- database.py
\* Value: val is a string or a MySortedSet; timeout is a time or None.
\* Database.data maps every key to its Value, or to Absent.
Absent == [kind |-> "absent", val |-> "", z |-> EmptyZ, timeout |-> None]
StrValue(v, t) == [kind |-> "str", val |-> v, z |-> EmptyZ, timeout |-> t]
ZValue(z, t) == [kind |-> "zset", val |-> "", z |-> z, timeout |-> t]
EmptyData == [k \in Keys |-> Absent]

\* what an operation of Database leaves: the map, the messages it passed to
\* logger.info, and what it returns
Outcome(d, lines, ret) == [data |-> d, lines |-> lines, ret |-> ret]

\* f'DEL {key}', f'SET {key} {val} {timeout}', f'EXPIRE {key} {timeout}'
DelMessage(key) == <<"DEL", key>>
SetMessage(key, val, timeout) == <<"SET", key, val, TimeoutStr(timeout)>>
ExpireMessage(key, timeout) == <<"EXPIRE", key, TimeoutStr(timeout)>>

\* Database.__check_life: the key is in the map
Expired(v, t) == Truthy(v.timeout) /\ t > v.timeout
\* a check that writes the DEL line and leaves the expired key in the map
CheckLifeKeepsCell(d, key, t) ==
    IF Expired(d[key], t)
    THEN [active |-> FALSE, data |-> d, lines |-> <<DelMessage(key)>>]
    ELSE [active |-> TRUE, data |-> d, lines |-> <<>>]
CheckLife(d, key, t) ==
    IF Expired(d[key], t)
    THEN [active |-> FALSE, data |-> [d EXCEPT ![key] = Absent],
          lines |-> <<DelMessage(key)>>]
    ELSE [active |-> TRUE, data |-> d, lines |-> <<>>]

\* Database.__check_active
CheckActive(d, key, t) ==
    IF key \in Keys /\ d[key].kind # "absent" THEN CheckLife(d, key, t)
    ELSE [active |-> FALSE, data |-> d, lines |-> <<>>]

\* Database.get
DbGet(d, key, t) ==
    LET c == CheckActive(d, key, t) IN
    IF c.active
    THEN Outcome(c.data, c.lines,
                 IF c.data[key].kind = "str" THEN RStr(c.data[key].val)
                 ELSE RStr("<MySortedSet object>"))
    ELSE Outcome(c.data, c.lines, Nil)

\* Database.set
SetTimeout(c, key, t, args) ==
    IF args.KEEPTTL /\ c.active THEN c.data[key].timeout
    ELSE IF Truthy(args.EX) THEN t + args.EX
    ELSE IF Truthy(args.PX) THEN t + (args.PX \div 1000)
    ELSE None
\* a set that looks at -XX before -NX and so never at -NX alone
DbSetOverwrites(d, key, val, args, t) ==
    LET c == CheckActive(d, key, t) IN
    IF args.XX /\ ~c.active THEN Outcome(c.data, c.lines, Nil)
    ELSE LET timeout == SetTimeout(c, key, t, args) IN
         Outcome([c.data EXCEPT ![key] = StrValue(val, timeout)],
                 Append(c.lines, SetMessage(key, val, timeout)),
                 RStr("OK"))
DbSet(d, key, val, args, t) ==
    LET c == CheckActive(d, key, t) IN
    IF args.NX /\ c.active THEN Outcome(c.data, c.lines, Nil)
    ELSE IF args.XX /\ ~c.active THEN Outcome(c.data, c.lines, Nil)
    ELSE LET timeout == SetTimeout(c, key, t, args) IN
         Outcome([c.data EXCEPT ![key] = StrValue(val, timeout)],
                 Append(c.lines, SetMessage(key, val, timeout)),
                 RStr("OK"))

\* Database.expire; int(age) raises ValueError on anything but a whole
\* numeral, and Session.__cmd_expire turns that into an error reply
\* an expire that stores the age and not the instant
DbExpireStoresAge(d, key, age, t) ==
    LET c == CheckActive(d, key, t) IN
    IF ~c.active THEN Outcome(c.data, c.lines, RInt(0))
    ELSE Outcome([c.data EXCEPT ![key].timeout = IntOf(age)],
                 Append(c.lines, ExpireMessage(key, IntOf(age))),
                 RInt(1))
DbExpire(d, key, age, t) ==
    LET c == CheckActive(d, key, t) IN
    IF ~c.active THEN Outcome(c.data, c.lines, RInt(0))
    ELSE IF ~IsIntStr(age)
         THEN Outcome(c.data, c.lines, RStr("Error: invalid literal for int()"))
    ELSE LET timeout == t + IntOf(age) IN
         Outcome([c.data EXCEPT ![key].timeout = timeout],
                 Append(c.lines, ExpireMessage(key, timeout)),
                 RInt(1))

\* a ttl that does not look whether the key is still alive
DbTtlUnchecked(d, key, t) ==
    IF d[key].kind = "absent" THEN Outcome(d, <<>>, RStr("-2"))
    ELSE IF Truthy(d[key].timeout) THEN Outcome(d, <<>>, RInt(d[key].timeout - t))
    ELSE Outcome(d, <<>>, RStr("-1"))
\* a ttl that takes the difference the other way round
DbTtlElapsed(d, key, t) ==
    LET c == CheckActive(d, key, t) IN
    IF ~c.active THEN Outcome(c.data, c.lines, RStr("-2"))
    ELSE IF Truthy(c.data[key].timeout)
         THEN Outcome(c.data, c.lines, RInt(t - c.data[key].timeout))
    ELSE Outcome(c.data, c.lines, RStr("-1"))

\* Database.ttl
DbTtl(d, key, t) ==
    LET c == CheckActive(d, key, t) IN
    IF ~c.active THEN Outcome(c.data, c.lines, RStr("-2"))
    ELSE IF Truthy(c.data[key].timeout)
         THEN Outcome(c.data, c.lines, RInt(c.data[key].timeout - t))
    ELSE Outcome(c.data, c.lines, RStr("-1"))

\* a delete that writes its line and leaves the key
DbDeleteLogsOnly(d, key) == Outcome(d, <<DelMessage(key)>>, RNone)

\* Database.delete: the DEL line is written before the key is looked up
DbDelete(d, key) ==
    Outcome(IF key \in Keys THEN [d EXCEPT ![key] = Absent] ELSE d,
            <<DelMessage(key)>>, RNone)

\* Session.__cmd_del: every key in turn
RECURSIVE DbDeleteAll(_, _)
DbDeleteAll(d, keys) ==
    IF keys = <<>> THEN Outcome(d, <<>>, RNone)
    ELSE LET one == DbDelete(d, Head(keys))
             rest == DbDeleteAll(one.data, Tail(keys))
         IN Outcome(rest.data, one.lines \o rest.lines, RNone)

\* the names database.db_map has an instance for
Registered(dbm) == {p[1] : p \in dbm}
\* a get_instance that constructs a Database at every call
GetInstanceAnew(dbm, name) == dbm \cup {<<name, Cardinality(dbm) + 1>>}
\* Database.get_instance: the registry it leaves
GetInstance(dbm, name) ==
    IF name \notin Registered(dbm) THEN dbm \cup {<<name, Cardinality(dbm) + 1>>}
    ELSE dbm

NotSortedSet(key) == RStr("ERR: Value at " \o key \o " is not a MySortedSet object.")

\* a zadd that does not look at -NX
DbZaddIgnoresNX(d, key, args, t, o) ==
    LET c == CheckActive(d, key, t) IN
    IF c.active /\ c.data[key].kind # "zset"
    THEN Outcome(c.data, c.lines, NotSortedSet(key))
    ELSE IF args.XX /\ ~c.active THEN Outcome(c.data, c.lines, Nil)
    ELSE IF c.active
    THEN LET u == IF args.INCR THEN ZIncrUpdate(c.data[key].z, args.score_member, o)
                  ELSE ZUpdate(c.data[key].z, args.score_member, args.CH, o)
         IN Outcome([c.data EXCEPT ![key].z = u.z], c.lines, RInt(u.ret))
    ELSE LET u == ZUpdate(EmptyZ, args.score_member, FALSE, o) IN
         Outcome([c.data EXCEPT ![key] = ZValue(u.z, None)], c.lines, RInt(u.ret))
\* Database.zadd; o is the order in which Python iterates over the members.
\* A key outside Keys cannot be stored in the model and is never given here.
DbZadd(d, key, args, t, o) ==
    LET c == CheckActive(d, key, t) IN
    IF c.active /\ c.data[key].kind # "zset"
    THEN Outcome(c.data, c.lines, NotSortedSet(key))
    ELSE IF args.NX /\ c.active THEN Outcome(c.data, c.lines, Nil)
    ELSE IF args.XX /\ ~c.active THEN Outcome(c.data, c.lines, Nil)
    ELSE IF c.active
    THEN LET u == IF args.INCR THEN ZIncrUpdate(c.data[key].z, args.score_member, o)
                  ELSE ZUpdate(c.data[key].z, args.score_member, args.CH, o)
         IN Outcome([c.data EXCEPT ![key].z = u.z], c.lines, RInt(u.ret))
    ELSE LET u == ZUpdate(EmptyZ, args.score_member, FALSE, o) IN
         Outcome([c.data EXCEPT ![key] = ZValue(u.z, None)], c.lines, RInt(u.ret))

\* MySortedSet.rank: members.index(member) looks the member up under its
\* present key; a member without a score raises KeyError, one the list
\* does not hold under that key raises ValueError
ZRank(z, member) ==
    IF member \notin z.dom THEN Nil
    ELSE LET hit == {i \in DOMAIN z.list :
                        z.list[i].k = z.sm[member] /\ z.list[i].m = member} IN
         IF hit = {} THEN RStr("Error: not in list")
         ELSE RInt((CHOOSE i \in hit : \A j \in hit : i <= j) - 1)

\* Database.zrank
DbZrank(d, key, member, t) ==
    LET c == CheckActive(d, key, t) IN
    IF ~c.active THEN Outcome(c.data, c.lines, Nil)
    ELSE IF c.data[key].kind # "zset" THEN Outcome(c.data, c.lines, NotSortedSet(key))
    ELSE Outcome(c.data, c.lines, ZRank(c.data[key].z, member))

\* MySortedSet.range: the slice members[start:end] of whole numbers >= 0
Min(a, b) == IF a <= b THEN a ELSE b
ZRange(z, start, end, withscores) ==
    LET sl == SubSeq(z.list, start + 1, Min(end, Len(z.list))) IN
    RList([i \in DOMAIN sl |->
              IF withscores THEN <<sl[i].m, z.sm[sl[i].m]>> ELSE <<sl[i].m>>])

\* Database.zrange
DbZrange(d, key, args, t) ==
    LET c == CheckActive(d, key, t) IN
    IF ~c.active THEN Outcome(c.data, c.lines, RList(<<>>))
    ELSE IF c.data[key].kind # "zset" THEN Outcome(c.data, c.lines, NotSortedSet(key))
    ELSE Outcome(c.data, c.lines,
                 ZRange(c.data[key].z, IntOf(args.pos[2]), IntOf(args.pos[3]),
                        args.WITHSCORES))

\* ----------------------------------------------------------- state
VARIABLES
    up,         \* the server process is running
    pc,         \* where the request thread stands: "idle" between commands,
                \* "replay" inside Session.restore, "spawn" and "rmbkp"
                \* inside Session.__rdb_routine
    after,      \* what called __rdb_routine: "deselect", or "timer"
    rpos,       \* restore: the line of the sealed log read next
    cur,        \* Session.__cur_database: a dataset name, or NoDb
    db_map,     \* database.db_map: the Database instances, each a pair of its
                \* name and the number it was constructed as
    data,       \* Database.data of the dataset
    now,        \* time.time()
    last_save,  \* Session.last_save
    logf,       \* the file <name>.log
    bkp,        \* the file <name>.log.bkp
    rdb,        \* the file <name>.rdb
    rdbnew,     \* the file <name>.rdb.new
    workers,    \* the child processes running rdb_serialize
    lock,       \* Session.lock: 0, or the worker holding it
    reply,      \* what the last command line gave back to its sender
    crashes,    \* process kills so far
    crashed,    \* "no", or how the process was last killed with no SELECT
                \* completed since: "idle" (between two commands, a dataset
                \* selected) or "busy"
    recovered,  \* "no", or what crashed was when the last step, the first
                \* SELECT after a kill, completed
    atCrash,    \* Database.data when the process was last killed
    hist,       \* every Database.data a command has left behind so far
    tracking,   \* what is kept of the past: "hist" in it keeps hist, "reply"
                \* in it keeps reply
    cutMap,     \* Database.data as backup_logs of the last __rdb_routine left
                \* it, until the child is started
    driver,     \* what drives the session: Session.shell or the server loop
    sock,       \* server.py: "recv" (the REP socket awaits a request) or
                \* "send" (it owes a reply)
    nreq,       \* requests the server loop has received
    nrep,       \* replies the server loop has sent
    last        \* the last command line taken, with the map and the time it
                \* found (kept where reply is kept)

vars == <<up, pc, after, rpos, cur, db_map, data, now, last_save, logf, bkp,
          rdb, rdbnew, workers, lock, reply, crashes, crashed, recovered,
          atCrash, hist, tracking, cutMap, driver, sock, nreq, nrep, last>>

\* a text file: the lines it holds
NoFile == [exists |-> FALSE, lines |-> <<>>]
File(lines) == [exists |-> TRUE, lines |-> lines]
\* a pickle file: absent, partial (opened for writing, not all written) or full
NoImage == [state |-> "absent", data |-> EmptyData]
Image(st, d) == [state |-> st, data |-> d]

WorkerIds == 1..MaxWorkers
Idle == [pc |-> "off", image |-> EmptyData, cut |-> EmptyData]

\* Session.RDB_timeout as --debug --RDB_timeout 1 sets it: one second
RDB_timeout == 1

\* no command line taken yet
Unwritten == "<unwritten>"
Deleted == "<deleted>"
SortedSetWritten == "<sorted set>"
NoLine ==
    [line |-> <<>>, cur |-> NoDb, data |-> EmptyData, now |-> 0,
     wrote |-> [k \in Keys |-> Unwritten], reg |-> {}, disk |-> NoImage]

\* Session.__init__ and a clean directory; drv is what will drive the
\* session and kept what will be kept of the past
Start(drv, kept) ==
    /\ up = TRUE /\ pc = "idle" /\ after = "timer" /\ rpos = 1
    /\ cur = NoDb /\ db_map = {} /\ data = EmptyData
    /\ now = 1 /\ last_save = 1
    /\ logf = NoFile /\ bkp = NoFile /\ rdb = NoImage /\ rdbnew = NoImage
    /\ workers = [w \in WorkerIds |-> Idle] /\ lock = 0
    /\ reply = RNone
    /\ crashes = 0 /\ crashed = "no" /\ recovered = "no"
    /\ atCrash = EmptyData /\ hist = {EmptyData} /\ tracking = kept
    /\ cutMap = EmptyData
    /\ sock = "recv" /\ nreq = 0 /\ nrep = 0
    /\ last = NoLine
    /\ driver = drv
Init == Start("shell", {})
InitCrash == Start("shell", {"hist"})
InitServer == Start("server", {"reply"})

\* ------------------------------------------------- logging to <name>.log
\* logging.Formatter('%(asctime)s %(name)s %(message)s'): asctime is a date
\* and a time, so the message follows three fields
LogLine(name, msg) == <<"date", "time", name>> \o msg
LogLines(name, msgs) == [i \in DOMAIN msgs |-> LogLine(name, msgs[i])]
\* restore: line.strip().split()[3:]
StripPrefix(line) == SubSeq(line, 4, Len(line))

\* ------------------------------------------------------------ engine.py
\* Session.validate_cmd: (command, parsed_args), or (None, second); the
\* parser's own message is printed by CommandParser.error, and what comes
\* back for a line the parser rejects is (None, None)
ValidateCmd(c, line) ==
    IF line = <<>> \/ line[1] \notin KnownCommands
    THEN [valid |-> FALSE, cmd |-> "", args |-> NoArgs,
          second |-> RStr("Unrecognized Command")]
    ELSE IF c = NoDb /\ line[1] \notin {"EXIT", "SELECT"}
    THEN [valid |-> FALSE, cmd |-> "", args |-> NoArgs,
          second |-> RStr("Select a database first before running operations.")]
    ELSE LET parsed_args == Parse(line[1], Tail(line)) IN
         IF parsed_args.ok
         THEN [valid |-> TRUE, cmd |-> line[1], args |-> parsed_args, second |-> RNone]
         ELSE [valid |-> FALSE, cmd |-> "", args |-> NoArgs, second |-> RNone]

DataCommands == {"GET", "SET", "EXPIRE", "TTL", "DEL", "ZADD", "ZRANK", "ZRANGE"}

\* Session.process_command for the commands that go to the Database
\* (__cmd_get, __cmd_set, __cmd_expire, __cmd_ttl, __cmd_del, __cmd_zadd,
\* __cmd_zrank, __cmd_zrange)
DataCommand(d, cmd, args, t, o) ==
    CASE cmd = "GET" -> DbGet(d, args.pos[1], t)
      [] cmd = "SET" -> DbSet(d, args.pos[1], args.pos[2], args, t)
      [] cmd = "EXPIRE" -> DbExpire(d, args.pos[1], args.pos[2], t)
      [] cmd = "TTL" -> DbTtl(d, args.pos[1], t)
      [] cmd = "DEL" -> DbDeleteAll(d, args.pos)
      [] cmd = "ZADD" -> DbZadd(d, args.pos[1], args, t, o)
      [] cmd = "ZRANK" -> DbZrank(d, args.pos[1], args.pos[2], t)
      [] cmd = "ZRANGE" -> DbZrange(d, args.pos[1], args, t)

FreeSlots == {w \in DOMAIN workers : workers[w].pc = "off"}
HasZset(d) == \E k \in Keys : d[k].kind = "zset"
\* pickle.load of <name>.rdb: a file not written to its end raises, and so
\* does one holding a sorted set (SortedSet is rebuilt, with the key
\* function MySortedSet.sortedset_key, before scoremap is set)
LoadFails(f) == f.state = "partial" \/ (f.state = "full" /\ HasZset(f.data))
Loaded(f) == IF f.state = "absent" THEN EmptyData ELSE f.data

\* what a command line gives back is kept where it is looked at
Reply(rep) == reply' = IF "reply" \in tracking THEN rep ELSE reply

\* the variables no step of the request thread changes
fixed == <<now, tracking, driver, rdb, rdbnew, lock, crashes, atCrash>>

\* the timer check at the end of the loop of Session.shell; the server
\* loop has none
TimerFires == driver = "shell" /\ now - last_save >= RDB_timeout

\* Database.backup_logs on the active log log2: it is copied to
\* <name>.log.bkp, removed and opened anew
BackupLogs(log2) == bkp' = File(log2) /\ logf' = File(<<>>)

\* a command has been processed, leaving the map d2, the active log
\* log2 and the output rep; then the timer check, and with it
\* Database.backup_logs, the first call of Session.__rdb_routine
Finish(d2, log2, rep) ==
    /\ data' = d2
    /\ Reply(rep)
    /\ IF TimerFires
       THEN /\ FreeSlots # {}
            /\ BackupLogs(log2)
            /\ cutMap' = d2
            /\ pc' = "spawn" /\ after' = "timer"
       ELSE /\ logf' = File(log2)
            /\ UNCHANGED <<bkp, cutMap, pc, after>>
    /\ UNCHANGED <<up, rpos, cur, db_map, last_save, workers, crashed>>

\* the process ends: sys.exit, or an exception nothing catches.  Python
\* joins the child processes before it goes, so they run on.
ProcessEnds ==
    /\ up' = FALSE /\ pc' = "idle" /\ after' = "timer" /\ rpos' = 1
    /\ cur' = NoDb /\ db_map' = {} /\ data' = EmptyData
    /\ UNCHANGED <<last_save, logf, bkp, workers, crashed, cutMap>>

\* Session.restore up to the replay loop: load the snapshot, get the
\* Database (its FileHandler creates the log file), backup_logs
RestoreBegin(name) ==
    IF LoadFails(rdb)
    THEN ProcessEnds /\ Reply(RStr("Traceback"))
    ELSE /\ data' = Loaded(rdb)
         /\ cur' = name /\ db_map' = GetInstance(db_map, name)
         /\ BackupLogs(logf.lines)
         /\ pc' = "replay" /\ rpos' = 1
         /\ UNCHANGED <<up, after, last_save, workers, reply, crashed, cutMap>>

\* Session.__cmd_deselect: __rdb_routine up to child.start()
DeselectBegin ==
    /\ FreeSlots # {}
    /\ BackupLogs(logf.lines)
    /\ cutMap' = data
    /\ pc' = "spawn" /\ after' = "deselect"
    /\ UNCHANGED <<up, rpos, cur, db_map, data, last_save, workers, reply, crashed>>

\* Session.process_command(cmd, args), and what the loop does next
Execute(cmd, args, o) ==
    CASE cmd = "SELECT" ->
           IF cur # NoDb
           THEN Finish(data, logf.lines,
                       RStr("Error: dataset currently in use, cannot use multiple datasets."))
           ELSE RestoreBegin(args.pos[1])
      [] cmd = "DESELECT" -> DeselectBegin
      [] cmd = "EXIT" -> ProcessEnds /\ Reply(RNone)
      [] OTHER ->
           LET out == DataCommand(data, cmd, args, now, o) IN
           /\ Len(logf.lines) + Len(out.lines) <= MaxLog
           /\ Finish(out.data, logf.lines \o LogLines(cur, out.lines), out.ret)

\* a line validate_cmd turns down changes nothing
Refused ==
    UNCHANGED <<up, pc, after, rpos, cur, db_map, data, last_save, logf, bkp,
                workers, crashed, cutMap>>

\* for every key, what the command lines taken so far have last written to
\* it, the line taken now included: the value of the last SET answered OK,
\* or that a ZADD or a DEL came after it
Wrote(line, o) ==
    LET v == ValidateCmd(cur, line)
        out == DataCommand(data, v.cmd, v.args, now, o)
    IN [k \in Keys |->
          IF ~v.valid \/ v.cmd \notin DataCommands THEN last.wrote[k]
          ELSE IF v.cmd = "SET" /\ v.args.pos[1] = k /\ out.ret = RStr("OK")
          THEN v.args.pos[2]
          ELSE IF v.cmd = "ZADD" /\ v.args.pos[1] = k /\ out.ret.kind = "int"
          THEN SortedSetWritten
          ELSE IF v.cmd = "DEL" /\ \E i \in DOMAIN v.args.pos : v.args.pos[i] = k
          THEN Deleted
          ELSE last.wrote[k]]

\* every step that takes a command line
Boundary(line, o) ==
    /\ hist' = IF "hist" \in tracking /\ cur # NoDb THEN hist \cup {data} ELSE hist
    /\ recovered' = "no"
    /\ last' = IF "reply" \in tracking
               THEN [line |-> line, cur |-> cur, data |-> data, now |-> now,
                     wrote |-> Wrote(line, o), reg |-> db_map, disk |-> rdb]
               ELSE last

\* a behaviour is followed until the dataset is back after the last kill
Followed == crashes < MaxCrashes \/ crashed # "no"

\* one turn of the loop of Session.shell on the line typed
ShellStep(line, o) ==
    /\ driver = "shell" /\ up /\ pc = "idle" /\ Followed
    /\ Boundary(line, o)
    /\ LET v == ValidateCmd(cur, line) IN
       IF v.valid THEN Execute(v.cmd, v.args, o)
       ELSE Reply(v.second) /\ Refused
    /\ UNCHANGED <<fixed, sock, nreq, nrep>>

\* ------------------------------------------------------------ server.py
\* one turn of the loop of ServerSession.serve_request: recv_string,
\* validate_cmd, then either continue (no reply) or process_command and
\* send_string(str(output))
ServerStep(line, o) ==
    /\ driver = "server" /\ up /\ pc = "idle" /\ sock = "recv"
    /\ nreq < MaxReq
    /\ Boundary(line, o)
    /\ nreq' = nreq + 1
    /\ LET v == ValidateCmd(cur, line) IN
       IF v.valid
       THEN /\ Execute(v.cmd, v.args, o)
            /\ IF ~up' THEN sock' = "recv" /\ nrep' = nrep
               ELSE IF pc' = "idle" THEN sock' = "recv" /\ nrep' = nrep + 1
               ELSE sock' = "send" /\ nrep' = nrep
       ELSE /\ Reply(NoReply) /\ Refused
            /\ sock' = "send" /\ nrep' = nrep
    /\ UNCHANGED fixed

\* recv_string on a REP socket that still owes the reply to the last
\* request raises zmq.ZMQError, which nothing catches
ServerRecvFails ==
    /\ driver = "server" /\ up /\ pc = "idle" /\ sock = "send"
    /\ ProcessEnds
    /\ sock' = "recv"
    /\ UNCHANGED <<fixed, reply, recovered, hist, nreq, nrep, last>>

\* the reply of a command that took more than one step
SendIfServer ==
    IF driver = "server" THEN sock' = "recv" /\ nrep' = nrep + 1
    ELSE UNCHANGED <<sock, nrep>>

\* ------------------------------------------- engine.py: Session.restore
\* the body of the loop of restore on one line of the sealed log: strip
\* the prefix, validate_cmd, process_command (which logs, as for any
\* command); a line validate_cmd turns down is skipped
RestoreLine(d, c, line, t, o) ==
    LET v == ValidateCmd(c, StripPrefix(line)) IN
    IF v.valid /\ v.cmd \in DataCommands
    THEN DataCommand(d, v.cmd, v.args, t, o)
    ELSE Outcome(d, <<>>, RNone)

\* a replay with the logger switched off
ReplayLineUnlogged(o) ==
    /\ up /\ pc = "replay" /\ rpos <= Len(bkp.lines)
    /\ rpos' = rpos + 1
    /\ data' = RestoreLine(data, cur, bkp.lines[rpos], now, o).data
    /\ UNCHANGED <<fixed, up, pc, after, cur, db_map, last_save, logf, bkp, workers,
                   reply, crashed, recovered, hist, cutMap, sock, nreq, nrep, last>>
ReplayLine(o) ==
    /\ up /\ pc = "replay" /\ rpos <= Len(bkp.lines)
    /\ rpos' = rpos + 1
    /\ LET out == RestoreLine(data, cur, bkp.lines[rpos], now, o) IN
       /\ data' = out.data
       /\ logf' = File(logf.lines \o LogLines(cur, out.lines))
    /\ UNCHANGED <<fixed, up, pc, after, cur, db_map, last_save, bkp, workers,
                   reply, crashed, recovered, hist, cutMap, sock, nreq, nrep, last>>

\* the end of restore: os.remove of the sealed log; then the reply of
\* __cmd_select and, in the shell, the timer check
ReplayEnd ==
    /\ up /\ pc = "replay" /\ rpos > Len(bkp.lines)
    /\ Reply(RStr("Loaded Dataset"))
    /\ recovered' = crashed /\ crashed' = "no"
    /\ rpos' = 1
    /\ IF TimerFires
       THEN /\ FreeSlots # {}
            /\ BackupLogs(logf.lines)
            /\ cutMap' = data
            /\ pc' = "spawn" /\ after' = "timer"
       ELSE /\ bkp' = NoFile /\ pc' = "idle"
            /\ UNCHANGED <<logf, after, cutMap>>
    /\ SendIfServer
    /\ UNCHANGED <<fixed, up, cur, db_map, data, last_save, workers, hist, nreq, last>>

\* ------------------------------------- engine.py: Session.__rdb_routine
\* what rdb_serialize is given: under fork, the child's own copy of
\* Database.data as it is when child.start() runs
ChildCopy(d) == d

\* child = Process(target=rdb_serialize, ...); child.start()
Spawn ==
    /\ up /\ pc = "spawn"
    /\ LET w == CHOOSE x \in FreeSlots : \A y \in FreeSlots : x <= y IN
       workers' = [workers EXCEPT
                     ![w] = [pc |-> "start", image |-> ChildCopy(data), cut |-> cutMap]]
    /\ cutMap' = EmptyData
    /\ pc' = "rmbkp"
    /\ UNCHANGED <<fixed, up, after, rpos, cur, db_map, data, last_save, logf, bkp,
                   reply, crashed, recovered, hist, sock, nreq, nrep, last>>

\* os.remove(log_path + '.bkp'); last_save = time.time(); back in
\* __cmd_deselect, __cur_database = None
RemoveBackup ==
    /\ up /\ pc = "rmbkp"
    /\ bkp' = NoFile
    /\ last_save' = now
    /\ cur' = IF after = "deselect" THEN NoDb ELSE cur
    /\ IF after = "deselect" THEN Reply(RNone) ELSE UNCHANGED reply
    /\ pc' = "idle" /\ after' = "timer"
    /\ IF after = "deselect" THEN SendIfServer ELSE UNCHANGED <<sock, nrep>>
    /\ UNCHANGED <<fixed, up, rpos, db_map, data, logf, workers, crashed,
                   recovered, hist, cutMap, nreq, last>>

\* ------------------------------------------- engine.py: rdb_serialize
\* the variables no step of a child process changes
parent == <<up, pc, after, rpos, cur, db_map, data, now, last_save, logf, bkp,
            reply, crashes, crashed, recovered, atCrash, hist, tracking, cutMap,
            driver, sock, nreq, nrep, last>>

\* a child that pickled the parent's map as it is when the child gets to it
DumpedLive(w) == data

\* the map the child pickles
Dumped(w) == workers[w].image

\* lock.acquire(); pickle.dump(cur_database) into <name>.rdb.new
WorkerDump(w) ==
    /\ workers[w].pc = "start" /\ lock = 0
    /\ lock' = w
    /\ rdbnew' = Image("full", Dumped(w))
    /\ workers' = [workers EXCEPT ![w].pc = "wrote"]
    /\ UNCHANGED <<parent, rdb>>

\* shutil.copy(dump_path + '.new', dump_path) opens <name>.rdb for writing,
\* which empties it
WorkerCopyBegins(w) ==
    /\ workers[w].pc = "wrote"
    /\ rdb' = Image("partial", EmptyData)
    /\ workers' = [workers EXCEPT ![w].pc = "copying"]
    /\ UNCHANGED <<parent, rdbnew, lock>>

\* the copy is complete; os.remove(dump_path + '.new'); lock.release()
WorkerCopyEnds(w) ==
    /\ workers[w].pc = "copying"
    /\ rdb' = Image("full", rdbnew.data)
    /\ rdbnew' = NoImage
    /\ lock' = 0
    /\ workers' = [workers EXCEPT ![w] = Idle]
    /\ UNCHANGED parent

\* ------------------------------------------------------- environment
\* the machine goes down: the process and its children are killed, the
\* files stay as they are
Crash ==
    /\ up /\ crashes < MaxCrashes
    /\ crashes' = crashes + 1
    /\ crashed' = IF cur # NoDb /\ pc = "idle" THEN "idle" ELSE "busy"
    /\ recovered' = "no"
    /\ atCrash' = IF cur # NoDb THEN data ELSE atCrash
    /\ hist' = IF "hist" \in tracking /\ cur # NoDb /\ pc # "replay" THEN hist \cup {data} ELSE hist
    /\ up' = FALSE /\ pc' = "idle" /\ after' = "timer" /\ rpos' = 1
    /\ cur' = NoDb /\ db_map' = {} /\ data' = EmptyData
    /\ workers' = [w \in DOMAIN workers |-> Idle] /\ lock' = 0
    /\ cutMap' = EmptyData
    /\ sock' = "recv"
    /\ UNCHANGED <<now, last_save, logf, bkp, rdb, rdbnew, reply, tracking, driver,
                   nreq, nrep, last>>

\* the server is started again: Session.__init__
Restart ==
    /\ ~up /\ FreeSlots = DOMAIN workers
    /\ up' = TRUE
    /\ last_save' = now
    /\ lock' = 0
    /\ UNCHANGED <<pc, after, rpos, cur, db_map, data, now, logf, bkp, rdb, rdbnew,
                   workers, reply, crashes, crashed, recovered, atCrash, hist,
                   tracking, cutMap, driver, sock, nreq, nrep, last>>

\* a second passes
Tick ==
    /\ now < MaxTime
    /\ now' = now + 1
    /\ UNCHANGED <<up, pc, after, rpos, cur, db_map, data, last_save, logf, bkp,
                   rdb, rdbnew, workers, lock, reply, crashes, crashed, recovered,
                   atCrash, hist, tracking, cutMap, driver, sock, nreq, nrep, last>>

\* ------------------------------------------------- the command lines
AnyOrder == CHOOSE o \in TieOrders : TRUE

SelectLines == {<<"SELECT", n>> : n \in Names}
SetLines == {<<"SET", "x", "v">>, <<"SET", "x", "w", "-EX", IntStr(1)>>}
ExpireLines == {<<"EXPIRE", "x", IntStr(0)>>}
GetLines == {<<"GET", "x">>}
TtlLines == {<<"TTL", "x">>}
DelLines == {<<"DEL", "x", "y">>}
ZaddLines == {<<"ZADD", "y", IntStr(1), "a">>}
ZrankLines == {<<"ZRANK", "y", "a">>}
ZrangeLines == {<<"ZRANGE", "y", IntStr(0), IntStr(2)>>}
\* lines validate_cmd turns down: no such command, and lines the parser
\* of the command rejects
UnknownLines == {<<>>, <<"FLUSH">>}
RejectedLines ==
    {<<"SET", "x">>,
     <<"SET", "x", "v", "-EX", IntStr(1), "-PX", IntStr(1)>>,
     <<"SET", "x", "v", "-NX", "-XX">>,
     <<"ZADD", "y", IntStr(1), "a", IntStr(2)>>,
     <<"ZADD", "y", "one", "a">>}

\* the commands that write to the log
LoggedLines ==
    {<<"SET", "y", "w">>, <<"SET", "x", "v">>, <<"EXPIRE", "x", IntStr(0)>>,
     <<"DEL", "y">>}
\* what a client of the server sends
RequestLines ==
    {<<"SELECT", "a">>, <<"SET", "x", "v">>, <<"GET", "x">>, <<"DEL", "x">>,
     <<"DESELECT">>, <<"FLUSH">>} \cup RejectedLines

\* ------------------------------------------------ the interactive shell
Select == \E line \in SelectLines : ShellStep(line, AnyOrder)
Deselect == ShellStep(<<"DESELECT">>, AnyOrder)
Exit == ShellStep(<<"EXIT">>, AnyOrder)
Get == \E line \in GetLines : ShellStep(line, AnyOrder)
Set == \E line \in SetLines : ShellStep(line, AnyOrder)
Expire == \E line \in ExpireLines : ShellStep(line, AnyOrder)
Ttl == \E line \in TtlLines : ShellStep(line, AnyOrder)
Del == \E line \in DelLines : ShellStep(line, AnyOrder)
Zadd == \E line \in ZaddLines, o \in TieOrders : ShellStep(line, o)
Zrank == \E line \in ZrankLines : ShellStep(line, AnyOrder)
Zrange == \E line \in ZrangeLines : ShellStep(line, AnyOrder)
Unknown == \E line \in UnknownLines : ShellStep(line, AnyOrder)
Rejected == \E line \in RejectedLines : ShellStep(line, AnyOrder)
Logged == \E line \in LoggedLines : ShellStep(line, AnyOrder)
Request == \E line \in RequestLines : ServerStep(line, AnyOrder)
Replay == \E o \in TieOrders : ReplayLine(o)
Dump == \E w \in DOMAIN workers : WorkerDump(w)
CopyBegins == \E w \in DOMAIN workers : WorkerCopyBegins(w)
CopyEnds == \E w \in DOMAIN workers : WorkerCopyEnds(w)

\* the steps of a snapshot routine and of its child
Snapshot == Spawn \/ RemoveBackup \/ Dump \/ CopyBegins \/ CopyEnds

\* the session driven by Session.shell
Next ==
    \/ Select \/ Deselect \/ Exit
    \/ Get \/ Set \/ Expire \/ Ttl \/ Del \/ Zadd \/ Zrank \/ Zrange
    \/ Unknown \/ Rejected
    \/ Replay \/ ReplayEnd \/ Snapshot
    \/ Restart \/ Tick
Spec == Init /\ [][Next]_vars

\* the shell session with kills and restarts, the maps it went through kept
NextCrash ==
    \/ Select \/ Deselect \/ Logged
    \/ Replay \/ ReplayEnd \/ Snapshot
    \/ Crash \/ Restart
SpecCrash == InitCrash /\ [][NextCrash]_vars

\* the session driven by ServerSession.serve_request
NextServer ==
    \/ Request \/ ServerRecvFails
    \/ Replay \/ ReplayEnd \/ Snapshot \/ Restart
SpecServer == InitServer /\ [][NextServer]_vars

\* the store of a selected dataset.  It starts where a session is once a
\* snapshot of its map has been completed: the dataset selected, the log
\* empty, the snapshot equal to the map.
StoreMaps ==
    {EmptyData, [EmptyData EXCEPT !["x"] = StrValue("v", 1)]}
StartPool(drv, maps, n) ==
    /\ data \in maps
    /\ up = TRUE /\ pc = "idle" /\ after = "timer" /\ rpos = 1
    /\ cur = "a" /\ db_map = GetInstance({}, "a")
    /\ now = 1 /\ last_save = 1
    /\ logf = File(<<>>) /\ bkp = NoFile
    /\ rdb = Image("full", data) /\ rdbnew = NoImage
    /\ workers = [w \in 1..n |-> Idle] /\ lock = 0
    /\ reply = RNone
    /\ crashes = 0 /\ crashed = "no" /\ recovered = "no"
    /\ atCrash = EmptyData /\ hist = {EmptyData} /\ tracking = {"reply"}
    /\ cutMap = EmptyData
    /\ sock = "recv" /\ nreq = 0 /\ nrep = 0
    /\ last = [NoLine EXCEPT !.wrote = [k \in Keys |->
                   IF data[k].kind = "str" THEN data[k].val
                   ELSE IF data[k].kind = "zset" THEN SortedSetWritten
                   ELSE Unwritten]]
    /\ driver = drv
StartWith(drv, maps) == StartPool(drv, maps, MaxWorkers)
StoreStart(drv) == StartWith(drv, StoreMaps)
\* a shell session that may have MaxOverlap snapshot workers at once
InitOverlap == StartPool("shell", StoreMaps, MaxOverlap)
InitStore == StoreStart("server")
\* a dataset that ZADD y 1 b 3 c 4 d 0 e has been sent to
FourPairs == <<<<1, "b">>, <<3, "c">>, <<4, "d">>, <<0, "e">>>>
RescoreMaps ==
    {EmptyData,
     [EmptyData EXCEPT !["y"] = ZValue(ZUpdate(EmptyZ, FourPairs, FALSE, AnyOrder).z, None)]}
InitRescore == StartWith("server", RescoreMaps)

StringLines ==
    {<<"SET", "x", "v">>, <<"SET", "x", "w", "-NX">>, <<"SET", "x", "w", "-XX">>,
     <<"SET", "x", "w", "-EX", IntStr(1)>>, <<"SET", "x", "v", "-PX", IntStr(1000)>>,
     <<"SET", "x", "v", "-EX", IntStr(0)>>,
     <<"SET", "x", "w", "-KEEPTTL">>,
     <<"GET", "x">>, <<"TTL", "x">>, <<"TTL", "y">>,
     <<"EXPIRE", "x", IntStr(0)>>, <<"EXPIRE", "x", IntStr(1)>>,
     <<"SET", "y", "w">>,
     <<"DEL", "x">>}
SortedAddLines ==
    {<<"ZADD", "y", IntStr(1), "a">>, <<"ZADD", "y", IntStr(1), "b">>,
     <<"ZADD", "y", IntStr(2), "a">>,
     <<"ZADD", "y", IntStr(1), "a", IntStr(2), "b">>,
     <<"ZADD", "y", IntStr(2), "a", "-CH">>,
     <<"ZADD", "y", IntStr(2), "a", IntStr(1), "b", "-CH">>,
     <<"ZADD", "y", IntStr(2), "a", "-INCR">>,
     <<"ZADD", "y", IntStr(1), "b", "-NX">>,
     <<"ZADD", "y", IntStr(2), "b", "-XX">>,
     <<"ZADD", "x", IntStr(1), "a">>,
     <<"ZADD", "x", IntStr(1), "a", "-XX">>}
SortedReadLines ==
    {<<"GET", "x">>, <<"GET", "y">>,
     <<"ZRANK", "y", "a">>,
     <<"ZRANGE", "y", IntStr(0), IntStr(2)>>,
     <<"ZRANGE", "y", IntStr(0), IntStr(2), "-WITHSCORES">>}
\* the score of a member changed, in a sorted set of five members
RescoreLines ==
    {<<"ZADD", "y", IntStr(2), "a">>, <<"ZADD", "y", IntStr(1), "a">>,
     <<"ZADD", "y", IntStr(2), "b">>,
     <<"ZADD", "y", IntStr(1), "a", "-INCR">>}
RescoreReadLines ==
    {<<"ZRANK", "y", "a">>, <<"ZRANGE", "y", IntStr(0), IntStr(4)>>}
Strings == \E line \in StringLines : ServerStep(line, AnyOrder)
SortedAdd == \E line \in SortedAddLines, o \in TieOrders : ServerStep(line, o)
SortedRead == \E line \in SortedReadLines : ServerStep(line, AnyOrder)
Rescore == \E line \in RescoreLines, o \in TieOrders : ServerStep(line, o)
RescoreRead == \E line \in RescoreReadLines : ServerStep(line, AnyOrder)
\* the string commands, sent to the server
NextStore == Strings \/ Tick
SpecStore == InitStore /\ [][NextStore]_vars
\* the sorted-set commands, sent to the server
NextSorted == SortedAdd \/ SortedRead \/ Tick
SpecSorted == InitStore /\ [][NextSorted]_vars
\* every command that looks whether its key is alive, sent for a key that
\* has an expiry
ExpiryLines ==
    {<<"GET", "x">>, <<"SET", "x", "w">>, <<"EXPIRE", "x", IntStr(1)>>,
     <<"TTL", "x">>, <<"ZADD", "x", IntStr(1), "a">>, <<"ZRANK", "x", "a">>,
     <<"ZRANGE", "x", IntStr(0), IntStr(2)>>}
Expiring == \E line \in ExpiryLines, o \in TieOrders : ServerStep(line, o)
NextExpiry == Expiring \/ Tick
SpecExpiry == InitStore /\ [][NextExpiry]_vars
\* datasets left and taken up again, so that the snapshot of one DESELECT
\* is still being written when the next one starts
OverlapLines ==
    {<<"SET", "x", "v">>, <<"SET", "x", "w">>, <<"DESELECT">>, <<"SELECT", "a">>}
Overlapping == \E line \in OverlapLines : ShellStep(line, AnyOrder)
\* every SELECT here follows a DESELECT, which has sealed the log: restore
\* finds no line to replay
NextOverlap == Overlapping \/ ReplayEnd \/ Snapshot
SpecOverlap == InitOverlap /\ [][NextOverlap]_vars
\* a sorted set re-scored by requests to the server
NextRescore == Rescore \/ RescoreRead
SpecRescore == InitRescore /\ [][NextRescore]_vars

\* the shell session from its start, with what each line gives back kept
SessionLines ==
    {<<"SELECT", "a">>, <<"DESELECT">>, <<"SET", "x", "v">>, <<"DEL", "x">>,
     <<"ZADD", "y", IntStr(1), "a">>}
Session == \E line \in SessionLines : ShellStep(line, AnyOrder)
InitSession == Start("shell", {"reply"})
NextSession == Session \/ Exit \/ Restart \/ Replay \/ ReplayEnd \/ Snapshot
SpecSession == InitSession /\ [][NextSession]_vars

\* ------------------------------------------------------- properties
\* the lines a command step has appended to the dataset's log: they are in
\* the active log, or in the sealed log when the step ended with a cut-over
Appended ==
    LET after_step == IF pc' = "spawn" THEN bkp'.lines ELSE logf'.lines IN
    SubSeq(after_step, Len(logf.lines) + 1, Len(after_step))
\* a step of the loop that ran a data command on the selected dataset
DataStep == up /\ pc = "idle" /\ cur # NoDb /\ up' /\ cur' = cur /\ pc' \in {"idle", "spawn"}

\* restore's loop over lines, from the map d
RECURSIVE RestoreLines(_, _, _, _)
RestoreLines(d, c, lines, t) ==
    IF lines = <<>> THEN d
    ELSE RestoreLines(RestoreLine(d, c, Head(lines), t, AnyOrder).data, c, Tail(lines), t)

\* the map with the keys that have expired taken as absent
LiveCells(d) == [k \in Keys |-> IF Expired(d[k], now) THEN Absent ELSE d[k]]

StartsWith(s, p) == Len(p) <= Len(s) /\ SubSeq(s, 1, Len(p)) = p

\* C1: after a kill at any point, the map the next SELECT of the dataset
\* rebuilds is a map the session had at some command boundary before the kill
C1_RecoveredMapIsHistorical == recovered # "no" => data \in hist

\* C2: after a kill between two commands, the map the next SELECT rebuilds
\* is the map the live session had: the same value and the same expiry for
\* every key that has not expired, and no other key
C2_RecoveredMapIsLiveMap ==
    recovered = "idle" => LiveCells(data) = LiveCells(atCrash)

\* C3: every line a command appends to the log is, with its prefix stripped,
\* accepted by validate_cmd, and replaying the appended lines on the map the
\* command found gives the map the command left
C3_LoggedLinesReplay ==
    [][(DataStep /\ Appended # <<>>) =>
          /\ \A i \in DOMAIN Appended : ValidateCmd(cur, StripPrefix(Appended[i])).valid
          /\ RestoreLines(data, cur, Appended, now) = data']_vars

\* C4: every command that changes the map of the dataset appends exactly one
\* line to the dataset's log
C4_OneLinePerChange == [][(DataStep /\ data' # data) => Len(Appended) = 1]_vars

\* C5: while a snapshot worker has not completed, the sealed log is there
C5_BackupKeptUntilWorkerDone ==
    \A w \in WorkerIds : workers[w].pc # "off" => bkp.exists

\* C6: a sealed log that exists when SELECT runs keeps its lines when restore
\* seals the active log
C6_SealKeepsExistingBackup ==
    [][(up /\ pc = "idle" /\ pc' = "replay" /\ bkp.exists) =>
          StartsWith(bkp'.lines, bkp.lines)]_vars

\* C7: the snapshot file is never partially written: it is absent, or a
\* complete image
C7_SnapshotNeverPartial == rdb.state # "partial"

\* C8: the image a snapshot worker writes is the map as it stood at the
\* cut-over of its routine (every command logged in the sealed log is in it,
\* no later command is), whatever the live map has become since
C8_ImageIsCutOverMap ==
    \A w \in WorkerIds :
        lock = w => rdbnew = Image("full", workers[w].cut)
\* a worker has written its image and the live map has changed since the
\* cut-over
C8_Witness ==
    \E w \in WorkerIds :
        /\ workers[w].pc = "wrote" /\ lock = w
        /\ up /\ cur # NoDb /\ data # workers[w].cut

\* C9: whenever the server loop is about to receive a request, every request
\* received so far has had its reply
C9_EveryRequestAnswered == (up /\ pc = "idle") => nrep = nreq

\* C10: for a line the parser of its command rejects, validate_cmd returns
\* no command and the parser's message, the process goes on, and the map and
\* the log are as they were
C10_RejectedLineReturnsMessage ==
    [][\A line \in RejectedLines :
          (cur # NoDb /\ ServerStep(line, AnyOrder)) =>
              /\ ~ValidateCmd(cur, line).valid
              /\ ValidateCmd(cur, line).second = RStr(Parse(line[1], Tail(line)).err)
              /\ up' /\ data' = data /\ logf' = logf]_vars

\* ---------------------------------------------- session-state errors
\* a line the session cannot take in the state it is in: a data command or
\* DESELECT with no dataset selected, SELECT with one selected
SessionStateError(c, line) ==
    /\ line # <<>>
    /\ \/ c = NoDb /\ line[1] \in DataCommands \cup {"DESELECT"}
       \/ c # NoDb /\ line[1] = "SELECT"
SessionErrors ==
    {RStr("Select a database first before running operations."),
     RStr("Error: No database currently loaded"),
     RStr("Error: dataset currently in use, cannot use multiple datasets.")}

\* C11: a data command or DESELECT sent while no dataset is selected, and a
\* SELECT sent while one is selected, is answered with an error message and
\* leaves the selected dataset, its map, the log and the snapshot files as
\* they were
C11_SessionStateErrorAnswered ==
    [][\A line \in RequestLines :
          (SessionStateError(cur, line) /\ ServerStep(line, AnyOrder)) =>
              /\ reply' \in SessionErrors
              /\ UNCHANGED <<up, cur, db_map, data, logf, bkp, rdb, rdbnew>>]_vars

\* C12: a failure raised while a command is dispatched is caught and comes
\* back as a reply 'Error: <message>', and the session goes on taking
\* commands: no command but EXIT ends the process, and no command is
\* answered with an exception nothing caught
C12_DispatchFailureCaught ==
    /\ (last # NoLine /\ last.line # <<"EXIT">>) => up
    /\ reply # RStr("Traceback")

\* ------------------------------------------------------- type errors
\* the key of the line is live in the map d at time t
Live(d, key, t) == d[key].kind # "absent" /\ ~Expired(d[key], t)
\* the line is an operation of one variant on a live key of the other
OtherVariant(line, d, t) ==
    /\ Len(line) >= 2 /\ line[2] \in Keys /\ Live(d, line[2], t)
    /\ \/ line[1] = "GET" /\ d[line[2]].kind = "zset"
       \/ line[1] \in {"ZADD", "ZRANK", "ZRANGE"} /\ d[line[2]].kind = "str"
\* the replies 'ERR: Value at <key> is not ...'
TypedErrors(key) ==
    {NotSortedSet(key), RStr("ERR: Value at " \o key \o " is not a string.")}

\* C13: an operation on a live key that holds the other variant (GET on a
\* sorted set; ZADD, ZRANK or ZRANGE on a string) is answered with a typed
\* error 'ERR: Value at <key> is not ...' and leaves the cell as it was
C13_OtherVariantIsTypedError ==
    OtherVariant(last.line, last.data, last.now) =>
        /\ reply \in TypedErrors(last.line[2])
        /\ data[last.line[2]] = last.data[last.line[2]]

\* ------------------------------------------------------ string cells
\* str(output): what Session.shell prints and the server sends
Shown(r) == IF r.kind = "int" THEN IntStr(r.n) ELSE r.s

\* C14: GET k on a live key returns the value of the most recent SET k that
\* was answered OK, whatever was done to other keys in between; once DEL k
\* has been taken and k not written since, GET k returns (nil) and TTL k
\* returns -2
C14_GetReturnsLastSet ==
    \A k \in Keys :
        /\ (last.line = <<"GET", k>> /\ Live(last.data, k, last.now)) =>
               /\ last.wrote[k] \notin {Unwritten, Deleted}
               /\ reply = RStr(last.wrote[k])
        /\ (last.line = <<"GET", k>> /\ last.wrote[k] = Deleted) => reply = Nil
        /\ (last.line = <<"TTL", k>> /\ last.wrote[k] = Deleted) => Shown(reply) = "-2"
\* GET x returns the w of a SET of this session, with y set in between
C14_Witness ==
    /\ last.line = <<"GET", "x">> /\ Live(last.data, "x", last.now)
    /\ reply = RStr("w") /\ data["y"].kind = "str"

\* the lines SET <key> <value> [options] the parser accepts
IsSet(line) == Len(line) >= 3 /\ line[1] = "SET" /\ line[2] \in Keys /\ Parse("SET", Tail(line)).ok
SetArgs(line) == Parse("SET", Tail(line))

\* C15: SET k v -NX on a live key returns (nil) and leaves the value and the
\* expiry of k as they were; SET k v -XX on an absent or expired key returns
\* (nil) and leaves no cell for k; every other SET returns OK and leaves k a
\* string cell with the value v
C15_SetHonoursNXAndXX ==
    IsSet(last.line) =>
        LET k == last.line[2]
            live == Live(last.data, k, last.now)
        IN IF SetArgs(last.line).NX /\ live
           THEN reply = Nil /\ data[k] = last.data[k]
           ELSE IF SetArgs(last.line).XX /\ ~live
           THEN reply = Nil /\ data[k] = Absent
           ELSE /\ reply = RStr("OK")
                /\ data[k].kind = "str" /\ data[k].val = last.line[3]
\* SET x w -NX has found x live and left its v
C15_Witness ==
    /\ last.line = <<"SET", "x", "w", "-NX">> /\ Live(last.data, "x", last.now)
    /\ reply = Nil /\ data["x"].val = "v"

\* the expiry a SET with these options is to leave on a key whose cell was
\* v at the time t: the instant -EX or -PX names when one of them is given
GivenExpiry(args, t) ==
    IF args.EX # None THEN t + args.EX ELSE t + (args.PX \div 1000)
ExpiryAfterSet(args, v, t) ==
    IF args.KEEPTTL /\ v.kind # "absent" /\ ~Expired(v, t) THEN v.timeout
    ELSE IF args.EX # None \/ args.PX # None THEN GivenExpiry(args, t)
    ELSE None

\* C16: the cell a SET answered OK leaves has the expiry k had before if
\* -KEEPTTL is given and k was live; else the new absolute expiry if -EX or
\* -PX is given; else none
C16_ExpiryAfterSet ==
    (IsSet(last.line) /\ reply = RStr("OK")) =>
        data[last.line[2]].timeout =
            ExpiryAfterSet(SetArgs(last.line), last.data[last.line[2]], last.now)

\* the lines EXPIRE <key> <seconds> with whole seconds
IsExpire(line) ==
    Len(line) = 3 /\ line[1] = "EXPIRE" /\ line[2] \in Keys /\ IsIntStr(line[3])
\* what EXPIRE has done, seen in the state it left: 1 and the expiry
\* now + s on the untouched value of a live key, 0 and no cell otherwise
ExpireDone ==
    IsExpire(last.line) =>
        LET k == last.line[2]
            s == IntOf(last.line[3])
        IN IF Live(last.data, k, last.now)
           THEN /\ reply = RInt(1)
                /\ data[k] = [last.data[k] EXCEPT !.timeout = last.now + s]
           ELSE reply = RInt(0) /\ data[k] = Absent
\* the step is TTL k, the command before it was EXPIRE k s answered 1, and
\* no more than a second lies between the two
TtlRightAfterExpire ==
    /\ IsExpire(last.line) /\ reply = RInt(1)
    /\ last' # last /\ last'.line = <<"TTL", last.line[2]>>
    /\ last'.now - last.now <= 1

\* C17 as stated: EXPIRE k s on a live key returns 1 and sets the expiry to
\* now + s on the same value, and the TTL k that follows it at once returns s
\* or s-1; on an absent or expired key it returns 0 and leaves no cell
C17_ExpireThenTtl ==
    [][/\ ExpireDone'
       /\ TtlRightAfterExpire =>
              Shown(reply') \in {last.line[3], IntStr(IntOf(last.line[3]) - 1)}]_vars

\* C17 as amended: the same, the TTL k that follows at once returning s or
\* s-1 when s >= 1, and 0 or -2 (the key has expired) when s = 0
C17_ExpireSetsExpiry ==
    [][/\ ExpireDone'
       /\ TtlRightAfterExpire =>
              IF IntOf(last.line[3]) >= 1
              THEN Shown(reply') \in {last.line[3], IntStr(IntOf(last.line[3]) - 1)}
              ELSE Shown(reply') \in {"0", "-2"}]_vars
\* EXPIRE x 1 has been answered 1 and has left x its value and the expiry
\* now + 1
C17_Witness ==
    /\ last.line = <<"EXPIRE", "x", IntStr(1)>> /\ reply = RInt(1)
    /\ data["x"].kind = "str" /\ data["x"].timeout = last.now + 1

\* C18: TTL k returns the whole seconds that remain, a number >= 0, when k is
\* live with an expiry, -1 when k is live without one, and -2 when k is
\* absent or expired; no other negative number comes back
C18_TtlReplies ==
    \A k \in Keys :
        last.line = <<"TTL", k>> =>
            LET v == last.data[k] IN
            IF ~Live(last.data, k, last.now) THEN Shown(reply) = "-2"
            ELSE IF v.timeout = None THEN Shown(reply) = "-1"
            ELSE /\ reply.kind = "int" /\ reply.n >= 0
                 /\ reply.n = v.timeout - last.now
\* TTL x has found x live with one second left
C18_Witness ==
    /\ last.line = <<"TTL", "x">> /\ Live(last.data, "x", last.now)
    /\ last.data["x"].timeout = last.now + 1 /\ reply = RInt(1)

\* the number TTL k returns on the map d at the time t
TtlNum(d, k, t) ==
    LET r == DbTtl(d, k, t).ret IN
    IF r.kind = "int" THEN r.n ELSE IF r.s = "-1" THEN -1 ELSE -2
\* the step is a command that writes k: a SET answered OK, an EXPIRE
\* answered 1
WritesKey(k) ==
    /\ last' # last /\ Len(last'.line) >= 2 /\ last'.line[2] = k
    /\ \/ IsSet(last'.line) /\ reply' = RStr("OK")
       \/ IsExpire(last'.line) /\ reply' = RInt(1)

\* C19: while no command writes k, what TTL k returns never goes up as time
\* goes by: every TTL k returns the number of its moment, that number is not
\* above the one of the moment before, and once it is -2 it stays -2 and
\* GET k returns (nil)
C19_TtlNeverIncreases ==
    [][\A k \in Keys :
          /\ (last' # last /\ last'.line = <<"TTL", k>>) =>
                 Shown(reply') = IntStr(TtlNum(data, k, now))
          /\ ~WritesKey(k) =>
                 /\ TtlNum(data', k, now') <= TtlNum(data, k, now)
                 /\ TtlNum(data, k, now) = -2 => TtlNum(data', k, now') = -2
          /\ (last' # last /\ last'.line = <<"GET", k>> /\ TtlNum(data, k, now) = -2) =>
                 reply' = Nil]_vars
\* TTL x has returned -2 for an x that was set with an expiry and has
\* outlived it
C19_Witness ==
    /\ last.line = <<"TTL", "x">> /\ last.data["x"].kind = "str"
    /\ last.data["x"].timeout # None /\ last.now > last.data["x"].timeout
    /\ reply = RStr("-2")

\* ------------------------------------------------------- sorted sets
\* the members in the order of their names
ByName == <<"a", "b", "c", "d", "e">>
\* the pair (s1, m1) is strictly less than the pair (s2, m2)
PairLess(s1, m1, s2, m2) ==
    s1 < s2 \/ (s1 = s2 /\ Position(ByName, m1) < Position(ByName, m2))

\* C20: ZRANK k m on a sorted set built by ZADD commands returns the number
\* of members of k whose pair (score, member) is strictly less than the
\* pair of m
C20_RankCountsSmallerPairs ==
    \A k \in Keys, m \in Members :
        (/\ last.line = <<"ZRANK", k, m>>
         /\ Live(last.data, k, last.now) /\ last.data[k].kind = "zset"
         /\ m \in last.data[k].z.dom) =>
            LET z == last.data[k].z IN
            reply = RInt(Cardinality({n \in z.dom : PairLess(z.sm[n], n, z.sm[m], m)}))

\* the members of the sorted set z in ascending order of (score, member)
InPairOrder(z) ==
    CHOOSE s \in [1..Cardinality(z.dom) -> z.dom] :
        \A i, j \in DOMAIN s :
            i < j => PairLess(z.sm[s[i]], s[i], z.sm[s[j]], s[j])
\* the first n elements of the sequence s
FirstN(s, n) == SubSeq(s, 1, Min(n, Len(s)))

\* C21: ZRANGE k 0 N on a sorted set built by ZADD commands returns the first
\* N members in ascending order of score, equal scores in the order of the
\* member names, and a range over the whole set has as many elements as the
\* set has members
C21_RangeInPairOrder ==
    \A k \in Keys :
        (/\ Len(last.line) = 4 /\ last.line[1] = "ZRANGE" /\ last.line[2] = k
         /\ last.line[3] = IntStr(0) /\ IsIntStr(last.line[4])
         /\ Live(last.data, k, last.now) /\ last.data[k].kind = "zset") =>
            LET z == last.data[k].z
                want == FirstN(InPairOrder(z), IntOf(last.line[4]))
            IN /\ reply = RList([i \in DOMAIN want |-> <<want[i]>>])
               /\ IntOf(last.line[4]) >= Cardinality(z.dom) =>
                      Len(reply.l) = Cardinality(z.dom)

\* the members the sorted list of z holds
Listed(z) == {z.list[i].m : i \in DOMAIN z.list}

\* C22: in every state of a sorted set the ordered sequence holds each
\* member exactly once and its members are those the score map has a score
\* for, also after a ZADD that has changed the score of a member
C22_EachMemberListedOnce ==
    \A k \in Keys :
        data[k].kind = "zset" =>
            /\ Listed(data[k].z) = data[k].z.dom
            /\ Len(data[k].z.list) = Cardinality(data[k].z.dom)

\* a ZADD line and what the parser makes of it
IsZadd(line) == Len(line) >= 4 /\ line[1] = "ZADD" /\ Parse("ZADD", Tail(line)).ok
ZaddArgs(line) == Parse("ZADD", Tail(line))
\* the pairs before pair i that name the same member
Earlier(pairs, i) == {j \in 1..(i - 1) : pairs[j][2] = pairs[i][2]}
\* pair i names a member the set did not hold when the command reached it
IsNew(z, pairs, i) == pairs[i][2] \notin z.dom /\ Earlier(pairs, i) = {}
\* pair i leaves its member with another score than it had, a member without
\* a score included
IsChange(z, pairs, i) ==
    LET e == Earlier(pairs, i) IN
    IF e # {} THEN pairs[CHOOSE j \in e : \A h \in e : h <= j][1] # pairs[i][1]
    ELSE pairs[i][2] \notin z.dom \/ z.sm[pairs[i][2]] # pairs[i][1]

\* C23: ZADD on a live sorted set answers, without -CH, the number of pairs
\* whose member was not in the set, and with -CH the number of pairs that
\* changed the score their member had (a member that had none included);
\* ZADD on a key that is not live leaves a sorted set without expiry there
\* and answers the number of members added
C23_ZaddCounts ==
    \A k \in Keys :
        (IsZadd(last.line) /\ last.line[2] = k) =>
            LET args == ZaddArgs(last.line)
                pairs == args.score_member
                z == last.data[k].z
            IN /\ (/\ Live(last.data, k, last.now) /\ last.data[k].kind = "zset"
                   /\ ~args.NX /\ ~args.INCR) =>
                      reply = RInt(Cardinality(
                          {i \in DOMAIN pairs :
                              IF args.CH THEN IsChange(z, pairs, i)
                              ELSE IsNew(z, pairs, i)}))
               /\ (~Live(last.data, k, last.now) /\ ~args.XX) =>
                      /\ data[k].kind = "zset"
                      /\ data[k].timeout = None
                      /\ data[k].z.dom = {pairs[i][2] : i \in DOMAIN pairs}
                      /\ reply = RInt(Cardinality(data[k].z.dom))
\* ZADD y 2 a 1 b -CH has found a with another score and no b, and answered 2
C23_Witness ==
    /\ last.line = <<"ZADD", "y", IntStr(2), "a", IntStr(1), "b", "-CH">>
    /\ Live(last.data, "y", last.now) /\ last.data["y"].kind = "zset"
    /\ last.data["y"].z.dom = {"a"} /\ last.data["y"].z.sm["a"] # 2
    /\ reply = RInt(2)

\* C24: ZADD k d m -INCR on a live sorted set adds d to the score of m when
\* m is in the set and gives m the score d when it is not, and answers the
\* score m then has; on a key that is not live it leaves m with the score d,
\* so that the command sent twice for a fresh key leaves m with twice d
C24_IncrAddsToScore ==
    \A k \in Keys :
        (/\ IsZadd(last.line) /\ last.line[2] = k
         /\ ZaddArgs(last.line).INCR /\ Len(ZaddArgs(last.line).score_member) = 1) =>
            LET args == ZaddArgs(last.line)
                d == args.score_member[1][1]
                m == args.score_member[1][2]
                z == last.data[k].z
            IN /\ (/\ Live(last.data, k, last.now) /\ last.data[k].kind = "zset"
                   /\ ~args.NX) =>
                      /\ m \in data[k].z.dom /\ m \in Listed(data[k].z)
                      /\ data[k].z.sm[m] = IF m \in z.dom THEN z.sm[m] + d ELSE d
                      /\ reply = RInt(data[k].z.sm[m])
               /\ (~Live(last.data, k, last.now) /\ ~args.XX) =>
                      /\ data[k].kind = "zset"
                      /\ data[k].z.dom = {m} /\ data[k].z.sm[m] = d
\* ZADD y 2 a -INCR, sent to a set that held a with score 2 alone, has
\* answered 4
C24_Witness ==
    /\ last.line = <<"ZADD", "y", IntStr(2), "a", "-INCR">>
    /\ Live(last.data, "y", last.now) /\ last.data["y"].kind = "zset"
    /\ last.data["y"].z.dom = {"a"} /\ last.data["y"].z.sm["a"] = 2
    /\ data["y"].z.sm["a"] = 4 /\ reply = RInt(4)

\* C25: ZADD k -NX on a key that holds a live sorted set answers (nil) and
\* leaves every member and score of k as it was; ZADD k -XX on a key that is
\* absent or has expired answers (nil) and leaves no cell at k
C25_RefusedZaddChangesNothing ==
    \A k \in Keys :
        (IsZadd(last.line) /\ last.line[2] = k) =>
            /\ (/\ ZaddArgs(last.line).NX
                /\ Live(last.data, k, last.now) /\ last.data[k].kind = "zset") =>
                   reply = Nil /\ data[k] = last.data[k]
            /\ (ZaddArgs(last.line).XX /\ ~Live(last.data, k, last.now)) =>
                   reply = Nil /\ data[k] = Absent
\* ZADD y 1 b -NX has found a sorted set without b at y and answered (nil)
C25_Witness ==
    /\ last.line = <<"ZADD", "y", IntStr(1), "b", "-NX">>
    /\ Live(last.data, "y", last.now) /\ last.data["y"].kind = "zset"
    /\ "b" \notin last.data["y"].z.dom
    /\ reply = Nil /\ data["y"] = last.data["y"]

\* C26: a SELECT that finds the snapshot of the dataset written to its end
\* leaves the session with the very map the snapshot holds: the same keys,
\* strings, sorted sets with their scores and order, and expiry instants
C26_RestoreYieldsSnapshot ==
    [][(/\ up /\ pc = "idle" /\ cur = NoDb /\ rdb.state = "full"
        /\ last'.line \in SelectLines
        /\ (cur' # NoDb \/ ~up')) =>
           (up' /\ data' = rdb.data)]_vars

\* C27: once a command has been processed with a dataset selected, and the
\* loop that drives the session waits for the next one, the time the command
\* was processed at is less than the snapshot interval after last_save (the
\* timer has been looked at, and a snapshot that was due has run and has
\* set last_save anew); and a snapshot the timer has started finds the
\* interval elapsed
C27_TimerCheckedAfterCommand ==
    /\ (/\ up /\ pc = "idle" /\ cur # NoDb
        /\ last # NoLine /\ ValidateCmd(last.cur, last.line).valid) =>
           last.now - last_save < RDB_timeout
    /\ (up /\ pc = "spawn" /\ after = "timer") =>
           now - last_save >= RDB_timeout

\* the commands the active log is to have no line of: the reads, a SET
\* answered (nil), an EXPIRE answered 0, and a DEL, when they leave the
\* map as it was
LeavesMapAlone(line, rep) ==
    /\ line # <<>>
    /\ \/ line[1] \in {"GET", "TTL", "ZRANK", "ZRANGE", "DEL"}
       \/ line[1] = "SET" /\ rep = Nil
       \/ line[1] = "EXPIRE" /\ rep = RInt(0)
    /\ data' = data

\* C28: a command appends its lines after those the active log holds, and a
\* command that has not changed the map (GET, TTL, ZRANK, ZRANGE of a live
\* key, a SET that -NX or -XX refuses, an EXPIRE answered 0, a DEL of a key
\* the map does not hold) appends none
C28_OnlyMutationsLogged ==
    [][(DataStep /\ nreq' = nreq + 1) =>
           /\ StartsWith(logf'.lines, logf.lines)
           /\ LeavesMapAlone(last'.line, reply') => logf' = logf]_vars

\* the instances database.db_map holds for a name
InstancesOf(dbm, name) == {p \in dbm : p[1] = name}

\* C29: the registry holds one instance at most for every dataset name, and
\* a SELECT of a name the registry has an instance for gets that instance,
\* the one the first SELECT of the name constructed, and constructs none
C29_OneInstancePerName ==
    /\ \A n \in Names : Cardinality(InstancesOf(db_map, n)) <= 1
    /\ (/\ last.line \in SelectLines /\ last.cur = NoDb /\ up /\ cur = last.line[2]
        /\ last.line[2] \in Registered(last.reg)) =>
           /\ db_map = last.reg
           /\ InstancesOf(db_map, cur) = {<<cur, 1>>}
\* SELECT a has been taken a second time, DESELECT between, and has got the
\* instance of the first
C29_Witness ==
    /\ last.line = <<"SELECT", "a">> /\ last.cur = NoDb /\ up /\ cur = "a"
    /\ last.reg = {<<"a", 1>>} /\ db_map = {<<"a", 1>>}

\* a key that is in the map and has no expiry, or one later than t
LiveAt(d, key, t) ==
    d[key].kind # "absent" /\ (d[key].timeout = None \/ d[key].timeout > t)

\* C30: GET, TTL and EXPIRE take a key as live exactly when it is in the map
\* and has no expiry or an expiry later than now, so that a key whose expiry
\* is now is not live: GET of a string answers its value, TTL answers
\* something other than -2 and EXPIRE answers 1 for a live key and no other
C30_LiveIffExpiryAhead ==
    \A k \in Keys :
        /\ (last.line = <<"GET", k>> /\ last.data[k].kind # "zset") =>
               (reply # Nil <=> LiveAt(last.data, k, last.now))
        /\ last.line = <<"TTL", k>> =>
               (reply # RStr("-2") <=> LiveAt(last.data, k, last.now))
        /\ (Len(last.line) = 3 /\ last.line[1] = "EXPIRE" /\ last.line[2] = k) =>
               (reply = RInt(1) <=> LiveAt(last.data, k, last.now))

\* the lines of log that are the DEL line of key
DelLinesOf(log, key) == {i \in DOMAIN log : StripPrefix(log[i]) = DelMessage(key)}

\* C31: a GET, SET, EXPIRE, TTL, ZADD, ZRANK or ZRANGE of a key whose expiry
\* has passed removes the cell, appends the DEL line of the key, once and
\* before every other line of the command, and then does and answers what
\* it does and answers for a key the map does not hold
C31_ExpiredKeyIsDroppedAndLogged ==
    [][\A k \in Keys :
        (/\ DataStep /\ nreq' = nreq + 1
         /\ Len(last'.line) >= 2 /\ last'.line[2] = k
         /\ last'.line[1] \in {"GET", "SET", "EXPIRE", "TTL", "ZADD", "ZRANK", "ZRANGE"}
         /\ data[k].kind # "absent" /\ Expired(data[k], now)) =>
            LET v == ValidateCmd(cur, last'.line)
                gone == [data EXCEPT ![k] = Absent]
                out == DataCommand(gone, v.cmd, v.args, now, ByName)
                new == SubSeq(logf'.lines, Len(logf.lines) + 1, Len(logf'.lines))
            IN /\ StartsWith(logf'.lines, logf.lines)
               /\ new = LogLines(cur, <<DelMessage(k)>> \o out.lines)
               /\ Cardinality(DelLinesOf(new, k)) = 1
               /\ data' = out.data
               /\ reply' = out.ret]_vars
\* GET x has found the string at x expired: x is gone, the answer is (nil)
\* and the log ends with DEL x
C31_Witness ==
    /\ last.line = <<"GET", "x">>
    /\ last.data["x"].kind = "str" /\ Expired(last.data["x"], last.now)
    /\ data["x"] = Absent /\ reply = Nil
    /\ logf.lines # <<>> /\ StripPrefix(logf.lines[Len(logf.lines)]) = DelMessage("x")

\* C32: a SET answered OK that gives -EX s or -PX ms, and no -KEEPTTL that
\* finds the key live, leaves the key with the expiry now + s or
\* now + ms/1000, for 0 as for every other number, and a TTL of the key then
\* never answers -1
C32_SetWithExpiryNeverPersistent ==
    \A k \in Keys :
        (/\ IsSet(last.line) /\ last.line[2] = k /\ reply = RStr("OK")
         /\ (SetArgs(last.line).EX # None \/ SetArgs(last.line).PX # None)
         /\ ~(SetArgs(last.line).KEEPTTL /\ Live(last.data, k, last.now))) =>
            /\ data[k].timeout = GivenExpiry(SetArgs(last.line), last.now)
            /\ DbTtl(data, k, now).ret # RStr("-1")

\* C33: while SELECT replays the sealed log nothing is written to the new
\* active log: from the first replayed line to the end of recovery it is
\* empty
C33_ReplayLogsNothing == (up /\ pc = "replay") => logf.lines = <<>>

\* C34: a SELECT that follows, in the same process, the DESELECT of the same
\* name leaves the session with the map the dataset had when DESELECT was
\* taken, whatever the snapshot worker that DESELECT started has written so
\* far
C34_ReselectYieldsSameMap ==
    [][(/\ up /\ pc = "idle" /\ cur = NoDb
        /\ last.line = <<"DESELECT">> /\ last.cur # NoDb
        /\ last'.line = <<"SELECT", last.cur>>
        /\ (cur' # NoDb \/ ~up')) =>
           (up' /\ data' = last.data)]_vars

\* the workers that hold the snapshot lock: they have begun to write
\* <name>.rdb.new and have not finished the copy to <name>.rdb
Writing == {w \in DOMAIN workers : workers[w].pc \in {"wrote", "copying"}}

\* C35: of the workers of two snapshot routines one at most is writing at a
\* time, and when every worker has finished after the DESELECT that started
\* the later routine, <name>.rdb holds, complete, the map of that DESELECT
C35_LaterSnapshotWins ==
    /\ Cardinality(Writing) <= 1
    /\ \A w \in Writing : lock = w
    /\ (/\ last.line = <<"DESELECT">> /\ last.cur # NoDb
        /\ up /\ pc = "idle" /\ cur = NoDb
        /\ \A w \in DOMAIN workers : workers[w].pc = "off") =>
           rdb = Image("full", last.data)

\* C36: when SELECT has completed recovery (the snapshot loaded, the sealed
\* log replayed and removed) and the snapshot on disk is still the one it
\* loaded, no newer one being written, the snapshot and the active log on
\* disk rebuild the map recovery has left: a kill at that point and another
\* SELECT lose nothing of what the replayed commands did
C36_RecoveryCanBeRepeated ==
    [][(/\ up /\ pc = "replay" /\ up' /\ pc' = "idle"
        /\ last.line \in SelectLines /\ rdb = last.disk
        /\ \A w \in DOMAIN workers : workers[w].pc = "off") =>
           RestoreLines(Loaded(rdb), cur', logf'.lines, now) = data']_vars
\* recovery has replayed DEL x on a snapshot that holds x, and has left a
\* map without x
C36_Witness ==
    /\ last.line \in SelectLines /\ up /\ pc = "idle" /\ cur = "a"
    /\ rdb.state = "full" /\ rdb.data["x"].kind = "str"
    /\ \A w \in DOMAIN workers : workers[w].pc = "off"
    /\ data["x"] = Absent /\ logf.lines # <<>>

====
